---- MODULE Spec2Model ----
(***************************************************************************)
(* State-machine model of the geographic clustering engine                 *)
(* (src/src/utils/clustering.ts, kMeansCluster).                           *)
(*                                                                         *)
(* Numbers.  Coordinates are exact rationals held as integers in units of  *)
(* 1/Scale degree.  Scale is a common multiple of every divisor the code   *)
(* can use on the modelled inputs (the cluster sizes of the means and the  *)
(* denominators of the modelled Math.random() draws), so every mean and    *)
(* every initial centroid is an integer in these units and the model adds  *)
(* no rounding of its own.  IEEE rounding of the doubles is not modelled.  *)
(***************************************************************************)
EXTENDS Integers, Sequences, FiniteSets, TLC

VARIABLES
    restaurants,     \* the argument restaurants
    k,               \* the argument k
    draws,           \* the values Math.random() returns to this call, in call order
    centroids,       \* line 8
    assignments,     \* line 18
    newAssignments,  \* line 23
    iterations,      \* line 19
    assignSteps,     \* history: assignment steps (lines 26-41) run by this call
    clusters,        \* the returned array (line 65)
    outcome,         \* "pending", "returned", or the kind of error thrown
    pc,              \* position of the call
    prev,            \* history: arguments, draws and result of an earlier call
    csvRows,         \* result.data of Papa.parse: the rows of the CSV text
    parsed,          \* what the ingestion produced: its state and its restaurants
    loadedRestaurants, \* the restaurants state of the Index page
    upload,          \* the DataUpload component: mounted, isLoading, url
    load,            \* the last file or URL load: in flight, resolved or rejected
    dashboard        \* the Dashboard component: its state and its memoized clusters

vars == <<restaurants, k, draws, centroids, assignments, newAssignments,
          iterations, assignSteps, clusters, outcome, pc, prev, csvRows, parsed,
          loadedRestaurants, upload, load, dashboard>>

\* the variables of the clustering engine and of its callers
engineVars == <<restaurants, k, draws, centroids, assignments, newAssignments,
                iterations, assignSteps, clusters, outcome, pc, prev>>

\* the variables of the ingestion (utils/dataParser)
ingestVars == <<csvRows, parsed>>

\* the variables of the pages and components
appVars == <<loadedRestaurants, upload, load, dashboard>>

(***************************************************************************)
(* Bounds of the model                                                     *)
(***************************************************************************)
\* longest input sequence of the general specification
MaxPoints == 3
\* the general specification tries the cluster counts -1..MaxK
MaxK == 2

(***************************************************************************)
(* Arithmetic helpers                                                      *)
(***************************************************************************)
Max(a, b) == IF a >= b THEN a ELSE b

RECURSIVE Gcd(_, _)
Gcd(a, b) == IF b = 0 THEN a ELSE Gcd(b, a % b)

RECURSIVE LcmUpTo(_)
LcmUpTo(n) == IF n <= 1 THEN 1 ELSE LET l == LcmUpTo(n - 1) IN (l * n) \div Gcd(l, n)

SetMin(S) == CHOOSE x \in S : \A y \in S : x <= y
SetMax(S) == CHOOSE x \in S : \A y \in S : x >= y

(***************************************************************************)
(* Inputs                                                                  *)
(***************************************************************************)
\* the four positions of the scenario of the specification, in degrees
ScenarioPositions == << <<0, 0>>, <<0, 1>>, <<10, 10>>, <<10, 11>> >>

\* units per degree: a multiple of 1..(largest cluster) and of the draw denominators
Scale == LcmUpTo(Max(MaxPoints, Len(ScenarioPositions)))

\* Restaurant (types/restaurant): the fields the engine reads, plus the id
MakeRestaurants(positions) ==
    [i \in 1..Len(positions) |->
        [id |-> i - 1, lat |-> positions[i][1] * Scale, lon |-> positions[i][2] * Scale]]

\* the general specification places the restaurants on this grid (degrees)
LatValues == 0..2
LonValues == 0..1
Positions == LatValues \X LonValues

RestaurantLists ==
    UNION {{MakeRestaurants(f) : f \in [1..n -> Positions]} : n \in 0..MaxPoints}

\* values of Math.random() tried, as <<numerator, denominator>>, all in [0, 1)
RandomValues == {<<0, 1>>, <<1, 2>>}
ScenarioRandomValues == {<<0, 1>>, <<1, 4>>, <<1, 2>>, <<3, 4>>}

\* the two Math.random() calls of one loop round of lines 11-16
DrawPairs(values) == [lat : values, lon : values]

\* Math.random() is called 2k times, and only when the list is not empty
DrawLists(rs, kk, values) ==
    IF Len(rs) = 0 \/ kk <= 0 THEN {<< >>} ELSE [1..kk -> DrawPairs(values)]

(***************************************************************************)
(* getBounds, euclideanDistance                                            *)
(***************************************************************************)
getBounds(rs) ==
    LET lats == {rs[i].lat : i \in 1..Len(rs)}
        lons == {rs[i].lon : i \in 1..Len(rs)}
    IN [minLat |-> SetMin(lats), maxLat |-> SetMax(lats),
        minLon |-> SetMin(lons), maxLon |-> SetMax(lons)]

\* the square of euclideanDistance: Math.sqrt is increasing, so the order of two
\* distances, the only thing the code uses them for, is the order of their squares
euclideanDistanceSq(point1, point2) ==
    LET dx == point1[1] - point2[1]
        dy == point1[2] - point2[2]
    IN dx * dx + dy * dy

\* Infinity of line 27; squared distances are >= 0, so -1 is free to stand for it
Infinity == 0 - 1

\* a plausible bug: <= for <, so that a later centroid at the same distance wins
IsLessOrEqual(distance, minDistance) == minDistance = Infinity \/ distance <= minDistance

\* line 33
IsLess(distance, minDistance) == minDistance = Infinity \/ distance < minDistance

(***************************************************************************)
(* The steps of kMeansCluster as operators                                 *)
(***************************************************************************)
\* Math.random() * (max - min) + min, with Math.random() = value[1] / value[2];
\* a plausible bug: Math.random() * max + min
RandomFromZero(value, min, max) == (value[1] * max) \div value[2] + min

\* lines 13-14
RandomBetween(value, min, max) == (value[1] * (max - min)) \div value[2] + min

\* lines 8-16
InitialCentroids(rs, ds) ==
    LET bounds == getBounds(rs)
    IN [i \in 1..Len(ds) |->
          <<RandomBetween(ds[i].lat, bounds.minLat, bounds.maxLat),
            RandomBetween(ds[i].lon, bounds.minLon, bounds.maxLon)>>]

\* a plausible bug: the assignment vector of the previous call is reused
StaleAssignments(rs) ==
    IF Len(assignments) = Len(rs) THEN assignments ELSE [idx \in 1..Len(rs) |-> 0]

\* a plausible bug: the vector starts with no cluster (-1) instead of cluster 0
NoPreviousAssignments(rs) == [idx \in 1..Len(rs) |-> 0 - 1]

\* line 18
InitialAssignments(rs) == [idx \in 1..Len(rs) |-> 0]

\* lines 27-39: the scan over the centroids, from index i on
RECURSIVE NearestFrom(_, _, _, _, _)
NearestFrom(restaurant, cs, i, minDistance, assignedCluster) ==
    IF i >= Len(cs) THEN assignedCluster
    ELSE LET distance == euclideanDistanceSq(<<restaurant.lat, restaurant.lon>>, cs[i + 1])
         IN IF IsLess(distance, minDistance)
            THEN NearestFrom(restaurant, cs, i + 1, distance, i)
            ELSE NearestFrom(restaurant, cs, i + 1, minDistance, assignedCluster)

\* lines 23-41
AssignAll(rs, cs) == [idx \in 1..Len(rs) |-> NearestFrom(rs[idx], cs, 0, Infinity, 0)]

\* a plausible bug: some for every
ConvergedSomewhere(as, nas) == \E idx \in 1..Len(as) : as[idx] = nas[idx]

\* line 44
Converged(as, nas) == \A idx \in 1..Len(as) : as[idx] = nas[idx]

\* line 52: the indices (1-based) of the restaurants assigned to cluster i
MembersOf(as, i) == {idx \in 1..Len(as) : as[idx] = i}

RECURSIVE SumOver(_, _, _)
SumOver(rs, S, field) ==
    IF S = {} THEN 0
    ELSE LET idx == CHOOSE x \in S : TRUE
         IN rs[idx][field] + SumOver(rs, S \ {idx}, field)

\* a plausible bug: the sums are divided by the length of the whole list
MeanOfWholeList(rs, S) == <<SumOver(rs, S, "lat") \div Len(rs),
                            SumOver(rs, S, "lon") \div Len(rs)>>

\* lines 54-55
MeanOf(rs, S) == <<SumOver(rs, S, "lat") \div Cardinality(S),
                   SumOver(rs, S, "lon") \div Cardinality(S)>>

\* a plausible bug: a centroid with no assigned point is put back at the origin
UpdateCentroidsResetEmpty(rs, as, cs, kk) ==
    [j \in 1..Len(cs) |->
        IF j - 1 < kk /\ MembersOf(as, j - 1) # {}
        THEN MeanOf(rs, MembersOf(as, j - 1))
        ELSE <<0, 0>>]

\* lines 51-58
UpdateCentroids(rs, as, cs, kk) ==
    [j \in 1..Len(cs) |->
        IF j - 1 < kk /\ MembersOf(as, j - 1) # {}
        THEN MeanOf(rs, MembersOf(as, j - 1))
        ELSE cs[j]]

\* line 64
clusterColors ==
    <<"#e91e63", "#9c27b0", "#3f51b5", "#00bcd4", "#4caf50", "#ff9800", "#f44336">>

\* a plausible bug: <= for ===
InClusterAtMost(as, idx, i) == as[idx] <= i

\* line 70
InCluster(as, idx, i) == as[idx] = i

\* a plausible bug: the copy lists the fields it knows instead of spreading
WithClusterKnownFields(restaurant, i) ==
    [id |-> restaurant.id, lat |-> restaurant.lat, lon |-> restaurant.lon, cluster |-> i]

\* line 69: { ...restaurant, cluster: i }
WithCluster(restaurant, i) ==
    [f \in DOMAIN restaurant \cup {"cluster"} |->
        IF f = "cluster" THEN i ELSE restaurant[f]]

\* a plausible bug: the members are collected from the end of the list
RECURSIVE TaggedMembersBackwardsFrom(_, _, _, _)
TaggedMembersBackwardsFrom(rs, as, i, idx) ==
    IF idx > Len(rs) THEN << >>
    ELSE TaggedMembersBackwardsFrom(rs, as, i, idx + 1)
             \o (IF InCluster(as, idx, i) THEN <<WithCluster(rs[idx], i)>> ELSE << >>)

\* lines 68-70
RECURSIVE TaggedMembersFrom(_, _, _, _)
TaggedMembersFrom(rs, as, i, idx) ==
    IF idx > Len(rs) THEN << >>
    ELSE (IF InCluster(as, idx, i)
          THEN <<WithCluster(rs[idx], i)>>
          ELSE << >>) \o TaggedMembersFrom(rs, as, i, idx + 1)

clusterRestaurants(rs, as, i) == TaggedMembersFrom(rs, as, i, 1)

\* a plausible bug: the test of line 72 is missing
KeepAnyCluster(members) == TRUE

\* line 72
KeepCluster(members) == Len(members) > 0

\* a plausible bug: indices past the palette get its last color instead of cycling
ColorIndexClamped(i) == IF i < Len(clusterColors) THEN i ELSE Len(clusterColors) - 1

\* line 77: i % clusterColors.length
ColorIndex(i) == i % Len(clusterColors)

\* a plausible bug: ids counted from 1
ClusterIdFromOne(i) == i + 1

\* line 74
ClusterId(i) == i

\* a plausible bug: restaurant.cluster = i written on the input objects
InputTaggedInPlace(rs, as) == [idx \in 1..Len(rs) |-> WithCluster(rs[idx], as[idx])]

\* lines 68-70: map builds new objects with the spread and filter a new array;
\* the input array and its objects are only read
InputAfterCopy(rs, as) == rs

\* lines 67-80, from index i on
RECURSIVE ClustersFrom(_, _, _, _, _)
ClustersFrom(rs, as, cs, kk, i) ==
    IF i >= kk THEN << >>
    ELSE (IF KeepCluster(clusterRestaurants(rs, as, i))
          THEN <<[id |-> ClusterId(i),
                  center |-> cs[i + 1],
                  restaurants |-> clusterRestaurants(rs, as, i),
                  color |-> clusterColors[ColorIndex(i) + 1]]>>
          ELSE << >>) \o ClustersFrom(rs, as, cs, kk, i + 1)

\* line 20
maxIterations == 100

\* a plausible bug: a placeholder cluster is returned for an empty list
EmptyInputPlaceholder ==
    <<[id |-> 0, center |-> <<0, 0>>, restaurants |-> << >>, color |-> clusterColors[1]]>>

\* line 5: return []
EmptyInputResult == << >>

(***************************************************************************)
(* The run of one call                                                     *)
(***************************************************************************)
\* lines 4-20
Call ==
    /\ pc = "call"
    /\ IF Len(restaurants) = 0
       THEN /\ clusters' = EmptyInputResult
            /\ outcome' = "returned"
            /\ pc' = "done"
            /\ UNCHANGED <<centroids, assignments, iterations>>
       ELSE /\ centroids' = InitialCentroids(restaurants, draws)
            /\ assignments' = InitialAssignments(restaurants)
            /\ iterations' = 0
            /\ pc' = "loop"
            /\ UNCHANGED <<clusters, outcome>>
    /\ assignSteps' = 0
    /\ UNCHANGED <<restaurants, k, draws, newAssignments, prev>>
    /\ UNCHANGED ingestVars
    /\ UNCHANGED appVars

\* lines 22-41
AssignStep ==
    /\ pc = "loop"
    /\ IF iterations < maxIterations
       THEN /\ newAssignments' = AssignAll(restaurants, centroids)
            /\ assignSteps' = assignSteps + 1
            /\ pc' = "check"
       ELSE /\ pc' = "assemble"
            /\ UNCHANGED <<newAssignments, assignSteps>>
    /\ UNCHANGED <<restaurants, k, draws, centroids, assignments, iterations,
                   clusters, outcome, prev>>
    /\ UNCHANGED ingestVars
    /\ UNCHANGED appVars

\* lines 43-48
ConvergenceCheck ==
    /\ pc = "check"
    /\ IF Converged(assignments, newAssignments)
       THEN /\ pc' = "assemble"
            /\ UNCHANGED assignments
       ELSE /\ assignments' = newAssignments
            /\ pc' = "update"
    /\ UNCHANGED <<restaurants, k, draws, centroids, newAssignments, iterations,
                   assignSteps, clusters, outcome, prev>>
    /\ UNCHANGED ingestVars
    /\ UNCHANGED appVars

\* a plausible bug: iterations++ is missing
NextIterationStuck(n) == n

\* line 60
NextIteration(n) == n + 1

\* lines 50-60
UpdateStep ==
    /\ pc = "update"
    /\ centroids' = UpdateCentroids(restaurants, assignments, centroids, k)
    /\ iterations' = NextIteration(iterations)
    /\ pc' = "loop"
    /\ UNCHANGED <<restaurants, k, draws, assignments, newAssignments, assignSteps,
                   clusters, outcome, prev>>
    /\ UNCHANGED ingestVars
    /\ UNCHANGED appVars

\* lines 63-82
Assemble ==
    /\ pc = "assemble"
    /\ clusters' = ClustersFrom(restaurants, assignments, centroids, k, 0)
    /\ outcome' = "returned"
    /\ pc' = "done"
    /\ restaurants' = InputAfterCopy(restaurants, assignments)
    /\ UNCHANGED <<k, draws, centroids, assignments, newAssignments,
                   iterations, assignSteps, prev>>
    /\ UNCHANGED ingestVars
    /\ UNCHANGED appVars

NoCall == [called |-> FALSE]

\* no ingestion has run
NotParsed == [state |-> "idle", restaurants |-> << >>]

\* DataUpload as it is mounted: useState(false), useState('')
UploadStart == [mounted |-> TRUE, isLoading |-> FALSE, url |-> ""]

\* DataUpload after Index has replaced it by the Dashboard
NoUpload == [mounted |-> FALSE, isLoading |-> FALSE, url |-> ""]

NoLoad == [state |-> "none"]

\* the Dashboard is not rendered
NoDashboard == [mounted |-> FALSE]

\* the page as it starts: useState<Restaurant[]>([]), DataUpload shown
AppStart ==
    /\ loadedRestaurants = << >>
    /\ upload = UploadStart
    /\ load = NoLoad
    /\ dashboard = NoDashboard

\* the working state before the call has set any of it
Fresh ==
    /\ centroids = << >>
    /\ assignments = << >>
    /\ newAssignments = << >>
    /\ iterations = 0
    /\ assignSteps = 0
    /\ clusters = << >>
    /\ outcome = "pending"
    /\ pc = "call"
    /\ prev = NoCall
    /\ csvRows = << >>
    /\ parsed = NotParsed
    /\ AppStart

Init ==
    /\ restaurants \in RestaurantLists
    /\ k \in (0 - 1)..MaxK
    /\ draws \in DrawLists(restaurants, k, RandomValues)
    /\ Fresh

Next == Call \/ AssignStep \/ ConvergenceCheck \/ UpdateStep \/ Assemble

Spec == Init /\ [][Next]_vars

(***************************************************************************)
(* The scenario of the specification: four fixed points, k = 2             *)
(***************************************************************************)
InitScenario ==
    /\ restaurants = MakeRestaurants(ScenarioPositions)
    /\ k = 2
    /\ draws \in DrawLists(restaurants, k, ScenarioRandomValues)
    /\ Fresh

SpecScenario == InitScenario /\ [][Next]_vars

(***************************************************************************)
(* Calls one after the other.  JavaScript runs kMeansCluster to completion *)
(* before the next call starts; what a finished call left in its working   *)
(* variables stays in the model's variables, so that a call that read any  *)
(* of it before writing it would show.                                     *)
(***************************************************************************)
RepeatLists ==
    {MakeRestaurants(SubSeq(ScenarioPositions, 1, n)) : n \in 0..Len(ScenarioPositions)}
RepeatCounts == {1, 2}

ThisCall ==
    [called |-> TRUE, restaurants |-> restaurants, k |-> k, draws |-> draws,
     clusters |-> clusters]

\* the caller calls again, and may keep the finished call for comparison
CallAgain ==
    /\ pc = "done"
    /\ prev' \in (IF prev = NoCall THEN {NoCall, ThisCall} ELSE {prev})
    /\ restaurants' \in RepeatLists
    /\ k' \in RepeatCounts
    /\ draws' \in DrawLists(restaurants', k', RandomValues)
    /\ clusters' = << >>
    /\ outcome' = "pending"
    /\ pc' = "call"
    /\ UNCHANGED <<centroids, assignments, newAssignments, iterations, assignSteps>>
    /\ UNCHANGED ingestVars
    /\ UNCHANGED appVars

InitRepeat ==
    /\ restaurants \in RepeatLists
    /\ k \in RepeatCounts
    /\ draws \in DrawLists(restaurants, k, RandomValues)
    /\ Fresh

NextRepeat == Next \/ CallAgain

SpecRepeat == InitRepeat /\ [][NextRepeat]_vars

(***************************************************************************)
(* More cluster slots than palette entries: k = 9, restaurants on the line *)
(* lon = 0.  With all longitudes equal, maxLon - minLon = 0 and the        *)
(* longitude draw has no effect on the centroid, so one value is tried.    *)
(***************************************************************************)
PaletteCounts == {9}

PaletteLists ==
    UNION {{MakeRestaurants([i \in 1..n |-> <<f[i], 0>>]) : f \in [1..n -> LatValues]}
           : n \in 1..3}

PaletteDraws(kk) == [1..kk -> [lat : RandomValues, lon : {<<0, 1>>}]]

InitPalette ==
    /\ restaurants \in PaletteLists
    /\ k \in PaletteCounts
    /\ draws \in PaletteDraws(k)
    /\ Fresh

SpecPalette == InitPalette /\ [][Next]_vars

(***************************************************************************)
(* Calls with k = 3, the smallest count the Dashboard offers: with three   *)
(* centroids one index can be empty in a round that is not the last.       *)
(***************************************************************************)
SmallestCounts == {3}

InitSmallest ==
    /\ restaurants \in RestaurantLists
    /\ k \in SmallestCounts
    /\ draws \in DrawLists(restaurants, k, RandomValues)
    /\ Fresh

SpecSmallest == InitSmallest /\ [][Next]_vars

(***************************************************************************)
(* Restaurants with the other fields of the Restaurant type: name, and     *)
(* optionally cuisine, zone and cluster.  A finished call is followed by a *)
(* call with the same positions, k and random draws and other values in    *)
(* those fields.                                                           *)
(***************************************************************************)
Payloads ==
    {[name |-> "Roma"],
     [name |-> "Seoul", cuisine |-> "Korean", zone |-> "East"],
     [name |-> "Roma", cuisine |-> "Italian", cluster |-> 1]}

WithPayload(restaurant, payload) ==
    [f \in DOMAIN restaurant \cup DOMAIN payload |->
        IF f \in DOMAIN payload THEN payload[f] ELSE restaurant[f]]

PayloadLists ==
    {[i \in 1..2 |-> WithPayload(MakeRestaurants(f)[i], g[i])] :
        f \in [1..2 -> Positions], g \in [1..2 -> Payloads]}

PayloadCounts == {2}

SamePositions(rs, qs) ==
    /\ Len(rs) = Len(qs)
    /\ \A i \in 1..Len(rs) : rs[i].lat = qs[i].lat /\ rs[i].lon = qs[i].lon

CallWithOtherPayload ==
    /\ pc = "done"
    /\ prev = NoCall
    /\ prev' = ThisCall
    /\ restaurants' \in {rs \in PayloadLists : SamePositions(rs, restaurants)}
    /\ clusters' = << >>
    /\ outcome' = "pending"
    /\ pc' = "call"
    /\ UNCHANGED <<k, draws, centroids, assignments, newAssignments, iterations,
                   assignSteps>>
    /\ UNCHANGED ingestVars
    /\ UNCHANGED appVars

InitPayload ==
    /\ restaurants \in PayloadLists
    /\ k \in PayloadCounts
    /\ draws \in DrawLists(restaurants, k, RandomValues)
    /\ Fresh

NextPayload == Next \/ CallWithOtherPayload

SpecPayload == InitPayload /\ [][NextPayload]_vars

(***************************************************************************)
(* Ingestion: parseCSVData and generateSampleData (utils/dataParser).      *)
(* A JavaScript number is [kind, value]: kind "finite" with an integer     *)
(* value, or "NaN", "Infinity", "-Infinity" (value 0).  A cell is a text,  *)
(* or Missing for a column the row does not have (undefined).  The value   *)
(* of a finite number counts units of 1/10000 degree, the precision of the *)
(* sample data.                                                            *)
(***************************************************************************)
DegreeUnits == 10000

\* most rows in a CSV text
MaxRows == 2

Missing == "<undefined>"

Finite(n) == [kind |-> "finite", value |-> n]
NotFinite(kind) == [kind |-> kind, value |-> 0]

\* parseFloat on the texts the model uses: it reads the longest numeric prefix,
\* knows Infinity and -Infinity, and gives NaN for anything else and for undefined
parseFloat(text) ==
    CASE text = "0" -> Finite(0)
      [] text = "1" -> Finite(DegreeUnits)
      [] text = "1abc" -> Finite(DegreeUnits)
      [] text = "Infinity" -> NotFinite("Infinity")
      [] text = "-Infinity" -> NotFinite("-Infinity")
      [] OTHER -> NotFinite("NaN")

isNaN(number) == number.kind = "NaN"

\* a || b: the first operand unless it is falsy (undefined or the empty string)
OrElse(a, b) == IF a = Missing \/ a = "" THEN b ELSE a

\* the rows tried: columns lat, latitude and lon, each present or not
LatTexts == {Missing, "", "0", "abc", "1abc", "Infinity", "-Infinity"}
LatitudeTexts == {Missing, "1"}
LonTexts == {Missing, "1", "NaN", "Infinity"}
Rows == [lat : LatTexts, latitude : LatitudeTexts, lon : LonTexts]
RowLists == UNION {[1..n -> Rows] : n \in 0..MaxRows}

\* lines 62-66 and 68-73, for the columns the rows have
RowLat(row) == parseFloat(OrElse(row.lat, row.latitude))
RowLon(row) == parseFloat(row.lon)

\* line 89
InvalidCoordinates(row) == isNaN(RowLat(row)) \/ isNaN(RowLon(row))

\* lines 96-103
RowRestaurant(row, index) ==
    [id |-> index, lat |-> RowLat(row), lon |-> RowLon(row)]

\* a plausible bug: rows with invalid coordinates are skipped
parseCSVDataSkippingInvalid(rows) ==
    [state |-> "resolved",
     restaurants |->
        LET valid == SelectSeq([i \in 1..Len(rows) |-> i],
                               LAMBDA i : ~InvalidCoordinates(rows[i]))
        IN [j \in 1..Len(valid) |-> RowRestaurant(rows[valid[j]], valid[j] - 1)]]

\* lines 46-111: the complete callback
parseCSVData(rows) ==
    IF Len(rows) = 0 \/ \E i \in 1..Len(rows) : InvalidCoordinates(rows[i])
    THEN [state |-> "rejected", restaurants |-> << >>]
    ELSE [state |-> "resolved",
          restaurants |-> [i \in 1..Len(rows) |-> RowRestaurant(rows[i], i - 1)]]

\* lines 154-170: the positions of the 15 sample restaurants, in 1/10000 degree
samplePositions ==
    << <<407589, -739851>>, <<407505, -739934>>, <<407614, -739776>>,
       <<407505, -739934>>, <<406892, -739442>>, <<407831, -739712>>,
       <<407589, -739851>>, <<406782, -739442>>, <<407505, -739934>>,
       <<406892, -739442>>, <<407831, -739712>>, <<407589, -739851>>,
       <<406782, -739442>>, <<407505, -739934>>, <<406892, -739442>> >>

\* lines 154-170: their cuisines and zones
sampleCuisines ==
    <<"Italian", "Japanese", "French", "Indian", "American", "Italian", "Chinese",
      "Mexican", "Mediterranean", "American", "Vegetarian", "Seafood", "Indian",
      "Italian", "Chinese">>

sampleZones ==
    <<"Manhattan", "Manhattan", "Manhattan", "Manhattan", "Brooklyn", "Manhattan",
      "Manhattan", "Brooklyn", "Manhattan", "Brooklyn", "Manhattan", "Manhattan",
      "Brooklyn", "Manhattan", "Brooklyn">>

\* lines 153-173
generateSampleData ==
    [state |-> "resolved",
     restaurants |-> [i \in 1..Len(samplePositions) |->
        [id |-> i, lat |-> Finite(samplePositions[i][1]),
         lon |-> Finite(samplePositions[i][2]),
         cuisine |-> sampleCuisines[i], zone |-> sampleZones[i]]]]

ParseCSV ==
    /\ parsed.state = "idle"
    /\ parsed' = parseCSVData(csvRows)
    /\ UNCHANGED csvRows
    /\ UNCHANGED engineVars
    /\ UNCHANGED appVars

SampleData ==
    /\ parsed.state = "idle"
    /\ parsed' = generateSampleData
    /\ UNCHANGED csvRows
    /\ UNCHANGED engineVars
    /\ UNCHANGED appVars

InitParse ==
    /\ restaurants = << >>
    /\ k = 1
    /\ draws = << >>
    /\ centroids = << >>
    /\ assignments = << >>
    /\ newAssignments = << >>
    /\ iterations = 0
    /\ assignSteps = 0
    /\ clusters = << >>
    /\ outcome = "pending"
    /\ pc = "call"
    /\ prev = NoCall
    /\ csvRows \in RowLists
    /\ parsed = NotParsed
    /\ AppStart

NextParse == ParseCSV \/ SampleData

SpecParse == InitParse /\ [][NextParse]_vars

(***************************************************************************)
(* kMeansCluster as one function of its arguments and its random draws,    *)
(* for the callers that use its result                                     *)
(***************************************************************************)
\* lines 22-61: the loop, from the state of one of its rounds on
\* the array with the elements of f, each computed once
RECURSIVE ArrayFrom(_, _)
ArrayFrom(f, i) == IF i > Len(f) THEN << >> ELSE <<f[i]>> \o ArrayFrom(f, i + 1)

RECURSIVE RunLoop(_, _, _, _, _)
RunLoop(rs, kk, cs, as, n) ==
    IF n >= maxIterations THEN [centroids |-> cs, assignments |-> as]
    ELSE LET newAssignment == ArrayFrom(AssignAll(rs, cs), 1)
         IN IF Converged(as, newAssignment)
            THEN [centroids |-> cs, assignments |-> as]
            ELSE RunLoop(rs, kk,
                         ArrayFrom(UpdateCentroids(rs, newAssignment, cs, kk), 1),
                         newAssignment, NextIteration(n))

\* lines 4-83
kMeansCluster(rs, kk, ds) ==
    IF Len(rs) = 0 THEN EmptyInputResult
    ELSE LET end == RunLoop(rs, kk, ArrayFrom(InitialCentroids(rs, ds), 1),
                            InitialAssignments(rs), 0)
         IN ClustersFrom(rs, end.assignments, end.centroids, kk, 0)

(***************************************************************************)
(* The pages: Index, DataUpload and Dashboard.  A handler and the render   *)
(* that follows its state updates are one step.  The toasts are left out.  *)
(***************************************************************************)
\* a row with the columns lat and lon
Row(lat, lon) == [lat |-> lat, latitude |-> Missing, lon |-> lon]

\* the CSV files the user can choose, as the rows Papa.parse finds in them
UploadedFiles ==
    {<< >>,
     <<Row("0", "1")>>,
     <<Row("0", "1"), Row("1", "0")>>,
     <<Row("0", "1"), Row("abc", "0")>>,
     <<Row("1", Missing)>>}

\* the texts the user can type in the URL field
Urls ==
    {"", " ", "restaurants",
     "https://docs.google.com/spreadsheets/d/abc/edit",
     "https://data.example/ok.csv",
     "https://data.example/gone.csv",
     "https://data.example/page",
     "https://data.example/bad.csv",
     "https://offline.example/ok.csv"}

\* url.trim(), on these texts
Trim(url) == IF url = " " THEN "" ELSE url

\* lines 4-15
convertGoogleSheetsURL(url) ==
    IF url = "https://docs.google.com/spreadsheets/d/abc/edit"
    THEN "https://docs.google.com/spreadsheets/d/abc/export?format=csv"
    ELSE url

\* lines 17-36: new URL(url) throws for a text that is not an absolute URL
validateURL(url) == [isValid |-> url \notin {"", " ", "restaurants"}]

\* what the network answers to fetch(csvUrl)
Fetch(csvUrl) ==
    CASE csvUrl = "https://docs.google.com/spreadsheets/d/abc/export?format=csv" ->
             [kind |-> "csv", ok |-> TRUE, rows |-> <<Row("1", "1")>>]
      [] csvUrl = "https://data.example/ok.csv" ->
             [kind |-> "csv", ok |-> TRUE, rows |-> <<Row("0", "0"), Row("1", "1")>>]
      [] csvUrl = "https://data.example/gone.csv" ->
             [kind |-> "csv", ok |-> FALSE, rows |-> << >>]
      [] csvUrl = "https://data.example/page" ->
             [kind |-> "html", ok |-> TRUE, rows |-> << >>]
      [] csvUrl = "https://data.example/bad.csv" ->
             [kind |-> "csv", ok |-> TRUE, rows |-> <<Row("1", "1"), Row("", "1")>>]
      [] OTHER -> [kind |-> "network error", ok |-> FALSE, rows |-> << >>]

Rejected == [state |-> "rejected", restaurants |-> << >>]

\* lines 121-151
fetchDataFromURL(url) ==
    IF ~validateURL(url).isValid THEN Rejected
    ELSE LET response == Fetch(convertGoogleSheetsURL(url))
         IN IF response.kind = "network error" THEN Rejected
            ELSE IF ~response.ok THEN Rejected
            ELSE IF response.kind = "html" THEN Rejected
            ELSE parseCSVData(response.rows)

\* restaurant.cuisine, restaurant.zone: undefined when the field is absent
Field(restaurant, f) == IF f \in DOMAIN restaurant THEN restaurant[f] ELSE Missing

\* Dashboard, lines 32-40
cuisines(rs) == {Field(rs[i], "cuisine") : i \in 1..Len(rs)} \ {Missing}
zones(rs) == {Field(rs[i], "zone") : i \in 1..Len(rs)} \ {Missing}

\* the cuisines and the zones that are tried in the two selects
TriedCuisines == {"Italian", "Japanese"}
TriedZones == {"Brooklyn"}

\* Dashboard, lines 43-49
filteredRestaurants(rs, selectedCuisine, selectedZone) ==
    SelectSeq(rs, LAMBDA restaurant :
        /\ (selectedCuisine = "all" \/ Field(restaurant, "cuisine") = selectedCuisine)
        /\ (selectedZone = "all" \/ Field(restaurant, "zone") = selectedZone))

\* Dashboard, line 56
hasActiveFilters(dash) == dash.selectedCuisine # "all" \/ dash.selectedZone # "all"

\* Dashboard, line 123
ClusterCountOptions == {3, 4, 5, 6, 7, 8}

\* the restaurants as kMeansCluster reads them: lat and lon as numbers of
\* 1/10000 degree (the means are cut to that unit)
EnginePoint(restaurant) ==
    [f \in DOMAIN restaurant |->
        IF f \in {"lat", "lon"} THEN restaurant[f].value ELSE restaurant[f]]

EngineInput(rs) == [i \in 1..Len(rs) |-> EnginePoint(rs[i])]

\* the Math.random() results of one call made by the Dashboard: the values of
\* seed in turn, the same for both coordinates of a centroid
Seeds == RandomValues \X RandomValues

AppDraws(seed, kk) ==
    [i \in 1..kk |-> [lat |-> seed[2 - (i % 2)], lon |-> seed[2 - (i % 2)]]]

\* a plausible bug: the clusters are computed from the filtered list
MemoDepsFiltered(dash, rs) ==
    [restaurants |-> filteredRestaurants(rs, dash.selectedCuisine, dash.selectedZone),
     clusterCount |-> dash.clusterCount]

\* Dashboard, lines 27-29: the dependencies [restaurants, clusterCount]
MemoDeps(dash, rs) == [restaurants |-> rs, clusterCount |-> dash.clusterCount]

\* Dashboard, line 28: a call of kMeansCluster, kept as its arguments and the
\* Math.random() results it got; its value is DashboardClusters
ComputeClusters(deps, ds) ==
    [restaurants |-> deps.restaurants, clusterCount |-> deps.clusterCount, draws |-> ds]

\* Dashboard, lines 27-29: clusters, the value of the memoized call
DashboardClusters(dash) ==
    kMeansCluster(EngineInput(dash.memo.restaurants), dash.memo.clusterCount,
                  dash.memo.draws)

\* useMemo: the stored value unless a dependency changed; newList says that
\* restaurants is a new array, which differs from any earlier one
useMemo(memo, deps, newList, ds) ==
    IF newList \/ deps.restaurants # memo.restaurants
               \/ deps.clusterCount # memo.clusterCount
    THEN ComputeClusters(deps, ds)
    ELSE memo

\* Dashboard, lines 19-29: the first render
MountDashboard(rs, seed) ==
    LET start == [selectedCuisine |-> "all", selectedZone |-> "all", clusterCount |-> 5]
    IN [mounted |-> TRUE,
        selectedCuisine |-> start.selectedCuisine,
        selectedZone |-> start.selectedZone,
        showClusters |-> FALSE,
        showHeatmap |-> FALSE,
        clusterCount |-> start.clusterCount,
        memo |-> ComputeClusters(MemoDeps(start, rs),
                                 AppDraws(seed, start.clusterCount))]

\* a plausible bug: the Dashboard is rendered whatever the list holds
ShowsDashboardAlways(rs) == TRUE

\* Index, lines 94-100: restaurants.length === 0 ? DataUpload : Dashboard
ShowsDashboard(rs) == Len(rs) # 0

\* the Dashboard after a render of Index with the list rs
RenderDashboard(rs, dash, newList, seed) ==
    IF ~ShowsDashboard(rs) THEN NoDashboard
    ELSE IF ~dash.mounted THEN MountDashboard(rs, seed)
    ELSE [dash EXCEPT !.memo = useMemo(@, MemoDeps(dash, rs), newList,
                                       AppDraws(seed, dash.clusterCount))]

\* DataUpload after a render of Index with the list rs
RenderUpload(rs, up) ==
    IF ShowsDashboard(rs) THEN NoUpload
    ELSE IF up.mounted THEN up ELSE UploadStart

\* the Dashboard after one of its own state updates
Rerender(dash, seed) == RenderDashboard(loadedRestaurants, dash, FALSE, seed)

\* handleFileUpload up to its first await; the input is disabled while loading
ChooseFile ==
    /\ upload.mounted /\ ~upload.isLoading
    /\ \E rows \in UploadedFiles :
           load' = [state |-> "inflight", kind |-> "file", rows |-> rows, url |-> ""]
    /\ upload' = [upload EXCEPT !.isLoading = TRUE]
    /\ UNCHANGED <<loadedRestaurants, dashboard>>
    /\ UNCHANGED engineVars
    /\ UNCHANGED ingestVars

\* the URL input, disabled while loading
TypeUrl ==
    /\ upload.mounted /\ ~upload.isLoading
    /\ \E url \in Urls : url # upload.url /\ upload' = [upload EXCEPT !.url = url]
    /\ UNCHANGED <<loadedRestaurants, load, dashboard>>
    /\ UNCHANGED engineVars
    /\ UNCHANGED ingestVars

\* handleURLSubmit up to its first await; the button is disabled while loading
\* and for a blank url
SubmitUrl ==
    /\ upload.mounted /\ ~upload.isLoading
    /\ Trim(upload.url) # ""
    /\ load' = [state |-> "inflight", kind |-> "url", rows |-> << >>, url |-> upload.url]
    /\ upload' = [upload EXCEPT !.isLoading = TRUE]
    /\ UNCHANGED <<loadedRestaurants, dashboard>>
    /\ UNCHANGED engineVars
    /\ UNCHANGED ingestVars

\* what the load in flight ends with
LoadResult(l) ==
    IF l.kind = "file" THEN parseCSVData(l.rows) ELSE fetchDataFromURL(l.url)

\* the rest of handleFileUpload or handleURLSubmit, when the promise settles:
\* onDataLoaded on success, then setIsLoading(false)
CompleteLoad ==
    /\ load.state = "inflight"
    /\ IF LoadResult(load).state = "resolved"
       THEN \E seed \in Seeds :
                /\ loadedRestaurants' = LoadResult(load).restaurants
                /\ dashboard' = RenderDashboard(LoadResult(load).restaurants,
                                                dashboard, TRUE, seed)
                /\ upload' = [RenderUpload(LoadResult(load).restaurants, upload)
                                  EXCEPT !.isLoading = FALSE]
       ELSE /\ upload' = [upload EXCEPT !.isLoading = FALSE]
            /\ UNCHANGED <<loadedRestaurants, dashboard>>
    /\ load' = [load EXCEPT !.state = LoadResult(load).state]
    /\ UNCHANGED engineVars
    /\ UNCHANGED ingestVars

\* handleSampleData; its button has no disabled prop
LoadSampleData ==
    /\ upload.mounted
    /\ \E seed \in Seeds :
           /\ loadedRestaurants' = generateSampleData.restaurants
           /\ dashboard' = RenderDashboard(generateSampleData.restaurants,
                                           dashboard, TRUE, seed)
           /\ upload' = RenderUpload(generateSampleData.restaurants, upload)
    /\ UNCHANGED load
    /\ UNCHANGED engineVars
    /\ UNCHANGED ingestVars

SelectCuisine ==
    /\ dashboard.mounted
    /\ \E cuisine \in {"all"} \cup (cuisines(loadedRestaurants) \cap TriedCuisines) :
       \E seed \in Seeds :
           /\ cuisine # dashboard.selectedCuisine
           /\ dashboard' = Rerender([dashboard EXCEPT !.selectedCuisine = cuisine], seed)
    /\ UNCHANGED <<loadedRestaurants, upload, load>>
    /\ UNCHANGED engineVars
    /\ UNCHANGED ingestVars

SelectZone ==
    /\ dashboard.mounted
    /\ zones(loadedRestaurants) # {}
    /\ \E zone \in {"all"} \cup (zones(loadedRestaurants) \cap TriedZones) :
       \E seed \in Seeds :
           /\ zone # dashboard.selectedZone
           /\ dashboard' = Rerender([dashboard EXCEPT !.selectedZone = zone], seed)
    /\ UNCHANGED <<loadedRestaurants, upload, load>>
    /\ UNCHANGED engineVars
    /\ UNCHANGED ingestVars

clearFilters ==
    /\ dashboard.mounted
    /\ hasActiveFilters(dashboard)
    /\ \E seed \in Seeds :
           dashboard' = Rerender([dashboard EXCEPT !.selectedCuisine = "all",
                                                   !.selectedZone = "all"], seed)
    /\ UNCHANGED <<loadedRestaurants, upload, load>>
    /\ UNCHANGED engineVars
    /\ UNCHANGED ingestVars

ToggleClusters ==
    /\ dashboard.mounted
    /\ \E seed \in Seeds :
           dashboard' = Rerender([dashboard EXCEPT !.showClusters = ~@], seed)
    /\ UNCHANGED <<loadedRestaurants, upload, load>>
    /\ UNCHANGED engineVars
    /\ UNCHANGED ingestVars

ToggleHeatmap ==
    /\ dashboard.mounted
    /\ \E seed \in Seeds :
           dashboard' = Rerender([dashboard EXCEPT !.showHeatmap = ~@], seed)
    /\ UNCHANGED <<loadedRestaurants, upload, load>>
    /\ UNCHANGED engineVars
    /\ UNCHANGED ingestVars

SelectClusterCount ==
    /\ dashboard.mounted
    /\ \E count \in ClusterCountOptions : \E seed \in Seeds :
           /\ count # dashboard.clusterCount
           /\ dashboard' = Rerender([dashboard EXCEPT !.clusterCount = count], seed)
    /\ UNCHANGED <<loadedRestaurants, upload, load>>
    /\ UNCHANGED engineVars
    /\ UNCHANGED ingestVars

InitApp ==
    /\ restaurants = << >>
    /\ k = 1
    /\ draws = << >>
    /\ centroids = << >>
    /\ assignments = << >>
    /\ newAssignments = << >>
    /\ iterations = 0
    /\ assignSteps = 0
    /\ clusters = << >>
    /\ outcome = "pending"
    /\ pc = "call"
    /\ prev = NoCall
    /\ csvRows = << >>
    /\ parsed = NotParsed
    /\ loadedRestaurants = << >>
    /\ load = NoLoad
    /\ upload = RenderUpload(<< >>, UploadStart)
    /\ dashboard \in {RenderDashboard(<< >>, NoDashboard, TRUE, seed) : seed \in Seeds}

NextApp ==
    \/ ChooseFile \/ TypeUrl \/ SubmitUrl \/ CompleteLoad \/ LoadSampleData
    \/ SelectCuisine \/ SelectZone \/ clearFilters
    \/ ToggleClusters \/ ToggleHeatmap \/ SelectClusterCount

SpecApp == InitApp /\ [][NextApp]_vars

(***************************************************************************)
(* Properties                                                              *)
(***************************************************************************)
Returned == pc = "done" /\ outcome = "returned"

\* the places <<cluster, position>> of the returned member lists
MemberSlots ==
    UNION {{<<c, j>> : j \in 1..Len(clusters[c].restaurants)} : c \in 1..Len(clusters)}

SlotsOf(id) == {s \in MemberSlots : clusters[s[1]].restaurants[s[2]].id = id}

MemberCount(c) == Len(clusters[c].restaurants)

\* the mean position of the members a returned cluster lists
MeanOfMembers(c) == MeanOf(clusters[c].restaurants, 1..MemberCount(c))

WholeList == 1..Len(restaurants)

DistinctPositions ==
    \A i, j \in WholeList :
        i # j => <<restaurants[i].lat, restaurants[i].lon>>
                 # <<restaurants[j].lat, restaurants[j].lon>>

\* C1: with k >= 1, the returned member lists hold every input point, by id,
\* exactly once: none is dropped, none is listed twice, none is added.
C1_EveryPointExactlyOnce ==
    (pc = "done" /\ k >= 1) =>
        /\ \A idx \in WholeList : Cardinality(SlotsOf(restaurants[idx].id)) = 1
        /\ Cardinality(MemberSlots) = Len(restaurants)

C1_Witness ==
    /\ pc = "done" /\ k >= 2
    /\ Len(restaurants) >= 2
    /\ Len(clusters) >= 2

\* C2 (as the spec states it): with k = 1 and a non-empty list, one cluster is
\* returned, it holds all the points, and its center is the mean of all positions.
C2_SingleClusterAtMean ==
    (pc = "done" /\ k = 1 /\ Len(restaurants) > 0) =>
        /\ Len(clusters) = 1
        /\ MemberCount(1) = Len(restaurants)
        /\ clusters[1].center = MeanOf(restaurants, WholeList)

\* C3 (as the spec states it): a call with k <= 0 fails with InvalidParameter,
\* returns no clusters and computes no centroid and no assignment.
C3_InvalidKRejected ==
    (k <= 0 /\ pc # "call") =>
        /\ outcome = "InvalidParameter"
        /\ pc = "done"
        /\ clusters = << >>
        /\ assignSteps = 0

\* C4 (as the spec states it): with k >= 1, the center of every returned cluster
\* is the mean position of the members of that cluster.
C4_CenterIsMeanOfMembers ==
    (pc = "done" /\ k >= 1) =>
        \A c \in 1..Len(clusters) : clusters[c].center = MeanOfMembers(c)

\* C5: no returned cluster has zero members, and an index that no point is
\* assigned to at the end is not among the returned ids.
C5_NoEmptyCluster ==
    pc = "done" =>
        /\ \A c \in 1..Len(clusters) : MemberCount(c) > 0
        /\ \A c \in 1..Len(clusters) : MembersOf(assignments, clusters[c].id) # {}

C5_Witness ==
    /\ pc = "done" /\ k >= 2 /\ Len(restaurants) >= 2
    /\ \E i \in 0..(k - 1) : MembersOf(assignments, i) = {}
    /\ Len(clusters) = k - 1

\* what is left of a call: the rounds the loop may still run, then the position
StepsLeft ==
    CASE pc = "call" -> 4 * maxIterations + 4
      [] pc = "loop" -> 4 * (maxIterations - iterations) + 3
      [] pc = "check" -> 4 * (maxIterations - iterations) + 2
      [] pc = "update" -> 4 * (maxIterations - iterations) + 1
      [] pc = "assemble" -> 1
      [] pc = "done" -> 0

C6_Counts ==
    /\ iterations \in 0..maxIterations
    /\ assignSteps <= maxIterations
    /\ pc \in {"check", "update"} => iterations < maxIterations /\ assignSteps = iterations + 1
    /\ pc = "loop" => assignSteps = iterations
    /\ pc = "done" => outcome = "returned"
    /\ pc # "done" => ENABLED Next
    /\ StepsLeft >= 0

C7_SameInputsSameClusters ==
    (pc = "done" /\ prev # NoCall /\ prev.restaurants = restaurants /\ prev.k = k
        /\ prev.draws = draws)
    => clusters = prev.clusters

C7_Witness ==
    /\ pc = "done" /\ prev # NoCall
    /\ prev.restaurants = restaurants /\ prev.k = k /\ prev.draws = draws
    /\ Len(clusters) >= 2
    /\ assignSteps >= 2

\* C8 (as the spec states it): n points at pairwise distinct positions and
\* k >= n give at most n clusters, each with exactly one member.
C8_AllSingletons ==
    (pc = "done" /\ Len(restaurants) >= 1 /\ DistinctPositions /\ k >= Len(restaurants)) =>
        /\ Len(clusters) <= Len(restaurants)
        /\ \A c \in 1..Len(clusters) : MemberCount(c) = 1

\* C8 (amended): n points at pairwise distinct positions and k >= n give at
\* least one and at most n clusters, each with at least one member; only when
\* n clusters are returned is each of them a single point.
C8_AtMostNNonEmpty ==
    (pc = "done" /\ Len(restaurants) >= 1 /\ DistinctPositions /\ k >= Len(restaurants)) =>
        /\ Len(clusters) \in 1..Len(restaurants)
        /\ \A c \in 1..Len(clusters) : MemberCount(c) >= 1
        /\ Len(clusters) = Len(restaurants) =>
               \A c \in 1..Len(clusters) : MemberCount(c) = 1

C8_Witness ==
    /\ pc = "done" /\ Len(restaurants) >= 2 /\ DistinctPositions /\ k >= Len(restaurants)
    /\ assignSteps >= 2
    /\ \E c \in 1..Len(clusters) : MemberCount(c) >= 2

\* C9: an empty list and k >= 1 return an empty cluster list, with no error.
C9_EmptyListEmptyResult ==
    (Len(restaurants) = 0 /\ k >= 1) =>
        /\ outcome \in {"pending", "returned"}
        /\ clusters = << >>
        /\ pc \in {"call", "done"}
        /\ pc = "done" => outcome = "returned"

C9_Witness == Returned /\ Len(restaurants) = 0 /\ k >= 1

\* the first assignment step of the scenario separates {(0,0),(0,1)} from
\* {(10,10),(10,11)}
FirstStepSplits ==
    AssignAll(restaurants, InitialCentroids(restaurants, draws))
        \in {<<0, 0, 1, 1>>, <<1, 1, 0, 0>>}

IdsOf(c) == {clusters[c].restaurants[j].id : j \in 1..MemberCount(c)}

\* C10: in the scenario, whenever the first assignment step separates the two
\* groups, two clusters of two members are returned, the one of (0,0),(0,1) with
\* center (0, 0.5) and the one of (10,10),(10,11) with center (10, 10.5).
C10_ScenarioCenters ==
    (pc = "done" /\ FirstStepSplits) =>
        /\ Len(clusters) = 2
        /\ \A c \in 1..2 : MemberCount(c) = 2
        /\ \E c \in 1..2 : /\ IdsOf(c) = {0, 1}
                           /\ clusters[c].center = <<0, Scale \div 2>>
        /\ \E c \in 1..2 : /\ IdsOf(c) = {2, 3}
                           /\ clusters[c].center = <<10 * Scale, 10 * Scale + Scale \div 2>>

C10_Witness ==
    /\ Returned /\ FirstStepSplits
    /\ IdsOf(1) = {2, 3}

\* the returned cluster with id i, if any
WithId(i) == {c \in 1..Len(clusters) : clusters[c].id = i}

\* C11: every returned cluster with id i has the color at place i mod 7 of the
\* palette of 7 entries: id 7 has the color of id 0, and two returned clusters
\* with different ids below 7 have different colors.
C11_PaletteCycles ==
    pc = "done" =>
        /\ Len(clusterColors) = 7
        /\ \A c \in 1..Len(clusters) :
               clusters[c].color = clusterColors[(clusters[c].id % 7) + 1]
        /\ \A c \in WithId(7), d \in WithId(0) : clusters[c].color = clusters[d].color
        /\ \A c, d \in 1..Len(clusters) :
               (clusters[c].id < 7 /\ clusters[d].id < 7 /\ clusters[c].id # clusters[d].id)
               => clusters[c].color # clusters[d].color

C11_Witness ==
    /\ Returned /\ k = 9
    /\ WithId(0) # {} /\ WithId(7) # {}
    /\ \E c \in WithId(7), d \in WithId(0) : clusters[c].color = clusters[d].color

\* the input restaurant a returned member was copied from
InputOf(member) == CHOOSE r \in {restaurants[i] : i \in WholeList} : r.id = member.id

Member(s) == clusters[s[1]].restaurants[s[2]]

\* what a result says about the grouping: ids, centers and the ids of the members
Grouping(cl) ==
    [c \in 1..Len(cl) |->
        [id |-> cl[c].id, center |-> cl[c].center,
         members |-> [j \in 1..Len(cl[c].restaurants) |-> cl[c].restaurants[j].id]]]

\* C12 (as the spec states it): every field of an input point, an existing
\* cluster field included, has the same value on its member in the output.
C12_EveryFieldKept ==
    pc = "done" =>
        \A s \in MemberSlots :
            \A f \in DOMAIN InputOf(Member(s)) : Member(s)[f] = InputOf(Member(s))[f]

\* C12 (amended): every field of an input point other than cluster has the same
\* value on its member in the output, the member has no other field than those
\* and cluster, cluster is the id of the cluster that lists the member, and a
\* call that differs only in fields other than lat and lon groups the points
\* the same way with the same centers.
C12_FieldsKeptButCluster ==
    pc = "done" =>
        /\ \A s \in MemberSlots :
              /\ DOMAIN Member(s) = DOMAIN InputOf(Member(s)) \cup {"cluster"}
              /\ \A f \in DOMAIN InputOf(Member(s)) \ {"cluster"} :
                     Member(s)[f] = InputOf(Member(s))[f]
              /\ Member(s).cluster = clusters[s[1]].id
        /\ prev # NoCall => Grouping(clusters) = Grouping(prev.clusters)

C12_Witness ==
    /\ Returned /\ prev # NoCall
    /\ \E i \in WholeList : restaurants[i] # prev.restaurants[i]
    /\ Len(clusters) = 2
    /\ assignSteps >= 2
    /\ \E s \in MemberSlots :
          /\ "cuisine" \in DOMAIN Member(s)
          /\ "cluster" \in DOMAIN InputOf(Member(s))

IsFiniteNumber(number) == number.kind = "finite"

\* C13 (as the spec states it): every restaurant that parseCSVData resolves
\* with and every sample restaurant has a finite lat and a finite lon; a row
\* whose latitude or longitude is not a finite number makes the parse reject.
C13_FiniteCoordinates ==
    parsed.state = "resolved" =>
        \A i \in 1..Len(parsed.restaurants) :
            /\ IsFiniteNumber(parsed.restaurants[i].lat)
            /\ IsFiniteNumber(parsed.restaurants[i].lon)

\* C14: with k >= 1 a call returns at most k clusters and at most as many
\* clusters as there are input points.
C14_AtMostKAndAtMostN ==
    (Returned /\ k >= 1) =>
        /\ Len(clusters) <= k
        /\ Len(clusters) <= Len(restaurants)

C14_Witness ==
    /\ Returned /\ k >= 2
    /\ Len(restaurants) < k
    /\ Len(clusters) = Len(restaurants)
    /\ Len(clusters) >= 1

\* the squared distance between input point idx and the centroid of index i
PositionOf(restaurant) == <<restaurant.lat, restaurant.lon>>

DistanceTo(idx, i) == euclideanDistanceSq(PositionOf(restaurants[idx]), centroids[i + 1])

\* C15: right after an assignment step (k >= 1), the index given to each point
\* is a centroid index, no centroid is strictly closer to the point than that
\* one, and no centroid of a lower index is at the same distance.
C15_LowestNearestIndex ==
    (pc = "check" /\ k >= 1) =>
        \A idx \in WholeList :
            /\ newAssignments[idx] \in 0..(k - 1)
            /\ \A i \in 0..(k - 1) :
                   /\ DistanceTo(idx, i) >= DistanceTo(idx, newAssignments[idx])
                   /\ i < newAssignments[idx] =>
                          DistanceTo(idx, i) > DistanceTo(idx, newAssignments[idx])

\* a point at the same distance from two centroids at different positions
C15_Witness ==
    /\ pc = "check" /\ k >= 2
    /\ \E idx \in WholeList : \E i \in 0..(k - 1) :
           /\ i > newAssignments[idx]
           /\ centroids[i + 1] # centroids[newAssignments[idx] + 1]
           /\ DistanceTo(idx, i) = DistanceTo(idx, newAssignments[idx])

AllZero == [idx \in WholeList |-> 0]

C16_States ==
    /\ ((pc = "loop" /\ assignSteps = 0) \/ (pc = "check" /\ assignSteps = 1)) =>
           assignments = AllZero
    /\ (pc \in {"update", "loop"} /\ iterations = 0 /\ assignSteps = 1) =>
           newAssignments # AllZero
    /\ (pc \in {"assemble", "done"} /\ assignSteps = 1) =>
           /\ newAssignments = AllZero
           /\ assignments = AllZero
           /\ centroids = InitialCentroids(restaurants, draws)
    /\ (pc \in {"assemble", "done"} /\ assignSteps >= 1 /\ iterations < maxIterations) =>
           newAssignments = assignments

C16_Steps ==
    /\ pc = "check" =>
           IF newAssignments = assignments
           THEN pc' = "assemble" /\ centroids' = centroids /\ assignments' = assignments
           ELSE pc' = "update" /\ assignments' = newAssignments
    /\ pc = "assemble" => pc' = "done" /\ centroids' = centroids

\* C16: the assignment before the first step is all zero; the loop is left at
\* the first assignment step whose result equals the assignment before it and
\* goes on to an update after any other; leaving it this way changes no
\* centroid, so a first step that gives every point index 0 ends the call with
\* the initial centroids.
C16_StopsAtFirstRepeat == [](C16_States) /\ [][C16_Steps]_vars

C16_Witness ==
    /\ Returned /\ k >= 2 /\ Len(restaurants) >= 2
    /\ assignSteps = 1
    /\ Len(clusters) = 1
    /\ clusters[1].center # MeanOfMembers(1)

C17_States ==
    /\ (pc # "call" /\ Len(restaurants) > 0 /\ k >= 1) => Len(centroids) = k
    /\ (Returned /\ k >= 1) =>
           \A c \in 1..Len(clusters) :
               /\ clusters[c].id \in 0..(k - 1)
               /\ clusters[c].center = centroids[clusters[c].id + 1]

C17_Steps ==
    pc = "update" =>
        /\ Len(centroids') = Len(centroids)
        /\ \A j \in 1..Len(centroids) :
               MembersOf(assignments, j - 1) = {} => centroids'[j] = centroids[j]

\* C17: an update step leaves the centroid of every index with no assigned
\* point where it was and keeps the k slots: none is removed or renumbered,
\* and a returned cluster's center is the centroid of its own index.  Such an
\* index can be given points again by a later assignment step (the witness).
C17_EmptyCentroidKept == [](C17_States) /\ [][C17_Steps]_vars

\* the second assignment step gives points to an index that the first left
\* empty and that is still at its initial position, away from the origin
C17_Witness ==
    /\ pc = "check" /\ assignSteps = 2
    /\ \E i \in 0..(k - 1) :
           /\ MembersOf(assignments, i) = {}
           /\ MembersOf(newAssignments, i) # {}
           /\ centroids[i + 1] = InitialCentroids(restaurants, draws)[i + 1]
           /\ centroids[i + 1] # <<0, 0>>

\* C18: right after an update step, every centroid index with at least one
\* assigned point is at the mean latitude and the mean longitude of the points
\* the assignment step of that round gave it.
C18_UpdatedCentroidIsMean ==
    (pc = "loop" /\ iterations >= 1 /\ k >= 1) =>
        \A i \in 0..(k - 1) :
            MembersOf(assignments, i) # {} =>
                /\ centroids[i + 1][1] * Cardinality(MembersOf(assignments, i))
                       = SumOver(restaurants, MembersOf(assignments, i), "lat")
                /\ centroids[i + 1][2] * Cardinality(MembersOf(assignments, i))
                       = SumOver(restaurants, MembersOf(assignments, i), "lon")

C18_Witness ==
    /\ pc = "loop" /\ iterations >= 1 /\ k >= 2
    /\ \E i, j \in 0..(k - 1) :
           /\ i # j
           /\ Cardinality(MembersOf(assignments, i)) >= 2
           /\ MembersOf(assignments, j) # {}
           /\ centroids[i + 1] # InitialCentroids(restaurants, draws)[i + 1]

\* C19: when the loop is left by the convergence check, every member of a
\* returned cluster has none of the k final centroids strictly closer to it
\* than the center of its cluster, and none of a lower index at the same distance.
C19_ReturnedIsFixedPoint ==
    (Returned /\ k >= 1 /\ iterations < maxIterations) =>
        \A c \in 1..Len(clusters) : \A j \in 1..MemberCount(c) :
            \A i \in 0..(k - 1) :
                /\ euclideanDistanceSq(PositionOf(clusters[c].restaurants[j]), centroids[i + 1])
                       >= euclideanDistanceSq(PositionOf(clusters[c].restaurants[j]),
                                              clusters[c].center)
                /\ i < clusters[c].id =>
                       euclideanDistanceSq(PositionOf(clusters[c].restaurants[j]), centroids[i + 1])
                           > euclideanDistanceSq(PositionOf(clusters[c].restaurants[j]),
                                                 clusters[c].center)

C19_Witness ==
    /\ Returned /\ k >= 2 /\ iterations < maxIterations
    /\ assignSteps >= 3
    /\ Len(clusters) >= 2

RECURSIVE CostFrom(_, _, _)
CostFrom(as, cs, idx) ==
    IF idx > Len(restaurants) THEN 0
    ELSE euclideanDistanceSq(PositionOf(restaurants[idx]), cs[as[idx] + 1])
             + CostFrom(as, cs, idx + 1)

\* the sum over the points of the squared distance to the assigned centroid
Cost(as, cs) == CostFrom(as, cs, 1)

C20_Steps ==
    /\ (pc = "update" /\ k >= 1) =>
           Cost(assignments, centroids') <= Cost(assignments, centroids)
    /\ (pc = "loop" /\ k >= 1 /\ iterations >= 1 /\ iterations < maxIterations) =>
           Cost(newAssignments', centroids) <= Cost(assignments, centroids)

InsideInput(position) ==
    /\ \E a, b \in WholeList :
           restaurants[a].lat <= position[1] /\ position[1] <= restaurants[b].lat
    /\ \E a, b \in WholeList :
           restaurants[a].lon <= position[2] /\ position[2] <= restaurants[b].lon

SamePosition ==
    \A a, b \in WholeList : PositionOf(restaurants[a]) = PositionOf(restaurants[b])

\* C22: when all the points of a non-empty list are at one position and
\* k >= 1, the call returns, without error, exactly one cluster; its id is 0,
\* it lists all the points and its center is that position.
C22_CoincidentPointsOneCluster ==
    (pc = "done" /\ Len(restaurants) > 0 /\ SamePosition /\ k >= 1) =>
        /\ outcome = "returned"
        /\ Len(clusters) = 1
        /\ clusters[1].id = 0
        /\ MemberCount(1) = Len(restaurants)
        /\ clusters[1].center = PositionOf(restaurants[1])

C22_Witness ==
    /\ Returned /\ k >= 2 /\ Len(restaurants) >= 2 /\ SamePosition
    /\ restaurants[1].lat > 0
    /\ Len(clusters) = 1

C23_States ==
    (Returned /\ k >= 1) =>
        /\ \A c, d \in 1..Len(clusters) : c < d => clusters[c].id < clusters[d].id
        /\ \A c \in 1..Len(clusters) :
               /\ clusters[c].id \in 0..(k - 1)
               /\ clusters[c].center = centroids[clusters[c].id + 1]
               /\ \A idx \in WholeList :
                      assignments[idx] = clusters[c].id
                          <=> restaurants[idx].id \in IdsOf(c)

C23_Steps ==
    /\ (pc \in {"loop", "check", "assemble"} /\ k >= 1) => centroids' = centroids
    /\ (pc = "update" /\ k >= 1) =>
           /\ Len(centroids') = Len(centroids)
           /\ \A j \in 1..Len(centroids) :
                  \/ centroids'[j] = centroids[j]
                  \/ /\ MembersOf(assignments, j - 1) # {}
                     /\ centroids'[j][1] * Cardinality(MembersOf(assignments, j - 1))
                            = SumOver(restaurants, MembersOf(assignments, j - 1), "lat")
                     /\ centroids'[j][2] * Cardinality(MembersOf(assignments, j - 1))
                            = SumOver(restaurants, MembersOf(assignments, j - 1), "lon")

\* C23: the returned clusters are in strictly increasing id order, every id
\* is in 0..k-1, the members of id i are the points assigned to index i, and
\* the center of id i is the centroid of slot i; a slot's centroid changes
\* only in an update step, and only to the mean of the points of its own index.
C23_IdsAreSlots == [](C23_States) /\ [][C23_Steps]_vars

\* a returned list that skips an index
C23_Witness ==
    /\ Returned /\ k >= 3 /\ assignSteps >= 2
    /\ Len(clusters) = 2
    /\ clusters[1].id = 0 /\ clusters[2].id = 2

\* the ids of the members of returned cluster c, in the order of the list
MemberIds(c) == [j \in 1..MemberCount(c) |-> clusters[c].restaurants[j].id]

RECURSIVE IdsAssignedFrom(_, _)
IdsAssignedFrom(i, idx) ==
    IF idx > Len(restaurants) THEN << >>
    ELSE IF assignments[idx] = i
         THEN <<restaurants[idx].id>> \o IdsAssignedFrom(i, idx + 1)
         ELSE IdsAssignedFrom(i, idx + 1)

\* C24: the member list of a returned cluster is the subsequence of the
\* input made of the points whose final assignment is the cluster's id, in
\* input order.
C24_MembersInInputOrder ==
    (Returned /\ k >= 1) =>
        \A c \in 1..Len(clusters) : MemberIds(c) = IdsAssignedFrom(clusters[c].id, 1)

\* a cluster whose members are not next to each other in the input
C24_Witness ==
    /\ Returned /\ k >= 2 /\ Len(restaurants) >= 3
    /\ \E c \in 1..Len(clusters) :
           /\ MemberCount(c) = 2
           /\ clusters[c].restaurants[1].id = restaurants[1].id
           /\ clusters[c].restaurants[2].id = restaurants[3].id

C25_Steps == pc # "done" => restaurants' = restaurants

\* C25: no step of a call changes the input list: its length, its order and
\* the fields of its points are after the call what they were before it,
\* the cluster tag being written on the copies only.
C25_InputUntouched == [][C25_Steps]_vars

\* an input point that carries a cluster field of its own and is returned,
\* with another tag, in a cluster
C25_Witness ==
    /\ Returned /\ prev = NoCall
    /\ \E idx \in WholeList : \E s \in MemberSlots :
           /\ "cluster" \in DOMAIN restaurants[idx]
           /\ Member(s).id = restaurants[idx].id
           /\ Member(s).cluster # restaurants[idx].cluster

C26_States ==
    /\ dashboard.mounted <=> Len(loadedRestaurants) # 0
    /\ dashboard.mounted =>
           /\ Len(dashboard.memo.restaurants) # 0
           /\ dashboard.memo.clusterCount \in {3, 4, 5, 6, 7, 8}
           /\ Len(dashboard.memo.draws) = dashboard.memo.clusterCount

C26_Steps ==
    (~dashboard.mounted /\ dashboard'.mounted) => dashboard'.memo.clusterCount = 5

\* C26: the Dashboard is rendered exactly while the loaded list is not
\* empty, and every call of kMeansCluster it makes has a non-empty list and a
\* cluster count among 3..8, which is 5 in the call of the first render.
C26_CallsFromDashboard == [](C26_States) /\ [][C26_Steps]_vars

\* a call with more clusters asked for than there are restaurants
C26_Witness ==
    /\ dashboard.mounted
    /\ dashboard.clusterCount = 8
    /\ Len(loadedRestaurants) = 1
    /\ Len(DashboardClusters(dashboard)) = 1

C27_States ==
    dashboard.mounted =>
        /\ dashboard.memo.restaurants = loadedRestaurants
        /\ dashboard.memo.clusterCount = dashboard.clusterCount

C27_Steps ==
    (dashboard.mounted /\ dashboard'.mounted
        /\ loadedRestaurants' = loadedRestaurants
        /\ dashboard'.clusterCount = dashboard.clusterCount)
    => dashboard'.memo = dashboard.memo

\* C27: the memoized call is always the one made with the full restaurant
\* list and the current cluster count, and a step that changes neither the
\* list nor the count (a filter, clearing the filters, a switch) keeps it, and
\* with it the clusters.
C27_FiltersKeepClusters == [](C27_States) /\ [][C27_Steps]_vars

\* filters that hide some restaurants and a switch turned on, with the
\* clusters of the full list
C27_Witness ==
    /\ dashboard.mounted
    /\ dashboard.selectedCuisine # "all" /\ dashboard.selectedZone # "all"
    /\ dashboard.showHeatmap /\ dashboard.showClusters
    /\ Len(filteredRestaurants(loadedRestaurants, dashboard.selectedCuisine,
                               dashboard.selectedZone)) < Len(loadedRestaurants)
    /\ dashboard.memo.restaurants = loadedRestaurants

C28_Steps ==
    load.state = "inflight" =>
        /\ loadedRestaurants' # loadedRestaurants => load'.state # "inflight"
        /\ Len(loadedRestaurants) # 0 => loadedRestaurants' = loadedRestaurants

\* C28 (as the spec states it): while a load is in flight only that load,
\* by completing, changes the loaded list, and a list that the dashboard
\* already shows is not replaced by a load started before it was shown.
C28_OnlyTheLoadInFlightDelivers == [][C28_Steps]_vars

\* the texts that do not parse to a number
BadText(text) == text \notin {"0", "1"}

\* a load that fails: an empty CSV, a row with invalid coordinates, an
\* invalid URL, a non-OK response, an HTML response, a failed fetch
Fails(l) ==
    IF l.kind = "file"
    THEN Len(l.rows) = 0
         \/ \E i \in 1..Len(l.rows) : BadText(l.rows[i].lat) \/ BadText(l.rows[i].lon)
    ELSE l.url \in {"restaurants", "https://data.example/gone.csv",
                    "https://data.example/page", "https://data.example/bad.csv",
                    "https://offline.example/ok.csv"}

C29_States ==
    /\ load.state = "rejected" => Fails(load)
    /\ load.state = "resolved" => ~Fails(load)
    /\ load.state \in {"rejected", "resolved"} => ~upload.isLoading

\* the step in which the load in flight ends
C29_Ends == load.state = "inflight" /\ load'.state # "inflight"

C29_Steps ==
    (C29_Ends /\ Fails(load)) =>
        /\ loadedRestaurants' = loadedRestaurants
        /\ dashboard' = dashboard
        /\ load'.state = "rejected"
        /\ ~upload'.isLoading

\* C29: the step that ends a failing load leaves the loaded list and the
\* Dashboard as they were (no list, whole or partial, is delivered), the load
\* is rejected, and the loading flag is false afterwards.
C29_FailedLoadDeliversNothing == [](C29_States) /\ [][C29_Steps]_vars

\* a file whose second row is invalid has been rejected, nothing is loaded
C29_Witness ==
    /\ load.state = "rejected" /\ load.kind = "file"
    /\ Len(load.rows) = 2
    /\ ~BadText(load.rows[1].lat) /\ ~BadText(load.rows[1].lon)
    /\ loadedRestaurants = << >>
    /\ upload.mounted /\ ~upload.isLoading

====
